---- MODULE Spec2Model ----
(***************************************************************************)
(* Black-Scholes pricer, Greeks and implied-volatility solver of Model.py. *)
(*                                                                         *)
(* Python floats are modelled as fixed-point numbers: the integer v stands *)
(* for the real number v / Q with Q = 10^6, so one unit is 1e-6, the       *)
(* smallest volatility the solver ever uses (the 1e-6 of lines 61, 70 and  *)
(* 72).  Every arithmetic operation rounds to the nearest unit, as a float *)
(* operation rounds to the nearest float, and saturates at +-Big (1000.0)  *)
(* where a float would grow without harm to the results read here.         *)
(* Magnitudes below one unit cannot be told from each other: the 1e-12 of  *)
(* the vega test (line 68) is the smallest positive number, VegaEps = 1    *)
(* unit, and the 1e-12 floor of line 66 is below every positive number,    *)
(* Floor = 0.  The tolerance of a call is given in units too.              *)
(***************************************************************************)
EXTENDS Integers, Sequences, FiniteSets, TLC

\* ------------------------------------------------------------------------
\* Fixed-point arithmetic
\* ------------------------------------------------------------------------

\* One, as a fixed-point number: v stands for v / Q.
Q == 10 ^ 6

\* Saturation bound of the arithmetic: 1000.0.
Big == 10 ^ 9

\* F(a), F(a, b), ... with every argument evaluated once, before F's body
\* is: an operator's argument is otherwise evaluated anew at each of its
\* uses in the body.
Call1(F(_), a) == CHOOSE v \in {F(x) : x \in {a}} : TRUE

Call2(F(_, _), a, b) == CHOOSE v \in {F(x, y) : x \in {a}, y \in {b}} : TRUE

Call4(F(_, _, _, _), a, b, c, d) ==
  CHOOSE v \in {F(x, y, z, w) : x \in {a}, y \in {b}, z \in {c}, w \in {d}} : TRUE

Abs(x) == IF x < 0 THEN -x ELSE x

Sgn(x) == IF x < 0 THEN -1 ELSE 1

Sat(x) == IF x > Big THEN Big ELSE IF x < -Big THEN -Big ELSE x

Max(a, b) == IF a >= b THEN a ELSE b

Min(a, b) == IF a <= b THEN a ELSE b

\* x * y for magnitudes x, y <= Big, rounded to the nearest unit.  The
\* product is split at 1000 so that no intermediate value leaves 32 bits.
MulMag(x, y) ==
  IF x \div 1000 > 0 /\ y \div 1000 > Big \div (x \div 1000)
  THEN Big
  ELSE Sat((x \div 1000) * (y \div 1000)
           + (((x \div 1000) * (y % 1000) + (x % 1000) * (y \div 1000)
               + (((x % 1000) * (y % 1000) + 500000) \div 1000)) \div 1000))

\* The float product a * b.
MulQ(a, b) == Call2(LAMBDA x, y : Sgn(x) * Sgn(y) * MulMag(Abs(Sat(x)), Abs(Sat(y))),
                    a, b)

\* The digits of r / y after the point, d of them, for r < y <= 2 * 10^8;
\* the last is rounded.
RECURSIVE FracDigits(_, _, _, _)
FracDigits(r, y, d, acc) ==
  IF d = 0
  THEN acc + (IF 2 * r >= y THEN 1 ELSE 0)
  ELSE Call4(FracDigits, (r * 10) % y, y, d - 1, acc * 10 + ((r * 10) \div y))

\* x / y for magnitudes x <= Big and 0 < y <= 2 * 10^8, rounded to the
\* nearest unit.
DivMag(x, y) ==
  IF x \div y >= 1000
  THEN Big
  ELSE Sat((x \div y) * Q + FracDigits(x % y, y, 6, 0))

\* The float quotient a / b, b not zero.
DivQ(a, b) ==
  Call2(LAMBDA x, y : Sgn(x) * Sgn(y)
                      * (IF Abs(y) > 2 * 10 ^ 8
                         THEN DivMag(Abs(Sat(x)) \div 10, Abs(y) \div 10)
                         ELSE DivMag(Abs(Sat(x)), Abs(y))),
        a, b)

\* The square root of x > 0: Newton's iteration from above, to its fixpoint.
RECURSIVE SqrtIter(_, _)
SqrtIter(x, y) ==
  Call1(LAMBDA z : IF z >= y THEN y ELSE SqrtIter(x, z), (y + DivQ(x, y)) \div 2)

\* math.sqrt.
Sqrt(x) == Call1(LAMBDA v : IF v <= 0 THEN 0 ELSE SqrtIter(v, Max(v, Q)), x)

\* ln 2, to six places.
Ln2 == 693147

\* math.pi, to six places.
Pi == 3141593

\* The sum term + term*f/k + term*f^2/(k(k+1)) + ...: the tail of the
\* series of exp(f), summed until a term rounds to zero.
RECURSIVE ExpSeries(_, _, _, _)
ExpSeries(f, term, k, acc) ==
  IF term = 0 \/ k > 20
  THEN acc
  ELSE Call4(ExpSeries, f, DivQ(MulQ(term, f), k * Q), k + 1, acc + term)

\* exp(x) for -15 < x < 7: x = n ln 2 + f with |f| <= (ln 2)/2, and
\* exp(x) = 2^n exp(f).
ExpReduced(x, n) ==
  Call1(LAMBDA e : IF n >= 0
                   THEN Sat(e * (2 ^ n))
                   ELSE (e + 2 ^ (-n - 1)) \div (2 ^ (-n)),
        ExpSeries(x - n * Ln2, Q, 1, 0))

\* math.exp.  exp(x) rounds to zero below -15 and saturates from 7 on.
Exp(x) ==
  Call1(LAMBDA v : IF v <= -15 * Q THEN 0
                   ELSE IF v >= 7 * Q THEN Big
                   ELSE Call2(ExpReduced, v, (2 * v + Ln2) \div (2 * Ln2)),
        x)

\* The mantissa and exponent of m * 2^n with the mantissa brought into
\* [1/sqrt 2, sqrt 2].
RECURSIVE LnReduce(_, _)
LnReduce(m, n) ==
  IF m > 1414214 THEN Call2(LnReduce, (m + 1) \div 2, n + 1)
  ELSE IF m < 707107 THEN Call2(LnReduce, 2 * m, n - 1)
  ELSE <<m, n>>

\* The sum pow/k + pow*zz/(k+2) + ...: the series of atanh(z) for pow = z,
\* zz = z^2 and k = 1.
RECURSIVE AtanhSeries(_, _, _, _)
AtanhSeries(zz, pow, k, acc) ==
  IF pow = 0 \/ k > 25
  THEN acc
  ELSE Call4(AtanhSeries, zz, MulQ(pow, zz), k + 2, acc + DivQ(pow, k * Q))

\* math.log of x > 0: ln x = n ln 2 + 2 atanh((m - 1) / (m + 1)).
Ln(x) ==
  Call1(LAMBDA mn :
          Call1(LAMBDA z : mn[2] * Ln2 + 2 * AtanhSeries(MulQ(z, z), z, 1, 0),
                DivQ(mn[1] - Q, mn[1] + Q)),
        LnReduce(x, 0))

\* The constants of the rational approximation of erf (Abramowitz and
\* Stegun 7.1.26), to six places.
ErfP == 327591
ErfA1 == 254830
ErfA2 == -284497
ErfA3 == 1421414
ErfA4 == -1453152
ErfA5 == 1061405

\* (a1 t + a2 t^2 + a3 t^3 + a4 t^4 + a5 t^5), by Horner's rule.
ErfPoly(t) ==
  MulQ(t, ErfA1 + MulQ(t, ErfA2 + MulQ(t, ErfA3 + MulQ(t, ErfA4 + MulQ(t, ErfA5)))))

\* math.erf: odd, and for z >= 0
\* erf(z) = 1 - (a1 t + ... + a5 t^5) exp(-z^2), t = 1 / (1 + p z).
Erf(z) ==
  Call1(LAMBDA w : Sgn(w) * (Q - MulQ(Call1(ErfPoly, DivQ(Q, Q + MulQ(ErfP, Abs(w)))),
                                      Exp(-MulQ(w, w)))),
        z)

\* math.sqrt(2 * math.pi) and math.sqrt(2.0).
Sqrt2Pi == Sqrt(2 * Pi)
Sqrt2 == Sqrt(2 * Q)

\* _phi(x): the standard normal density.
_phi(x) == Call1(LAMBDA v : DivQ(Exp(MulQ(MulQ(-(Q \div 2), v), v)), Sqrt2Pi), x)

\* _Phi(x): the standard normal distribution function.
_Phi(x) == MulQ(Q \div 2, Q + Erf(DivQ(x, Sqrt2)))

\* ------------------------------------------------------------------------
\* Pricer
\* ------------------------------------------------------------------------

\* What a call that raises ends in: the exception and its message.
Raise(exc, msg) == [kind |-> exc, msg |-> msg]

\* _d1_d2, lines 14-17: d1 and d2 of inputs that passed the gate.  math.log
\* of a number that is not positive raises ValueError, a float division by
\* zero ZeroDivisionError.
D1D2Of(S, K, T, r, sigma, q) ==
  Call2(LAMBDA vsqrtT, ratio :
          IF ratio <= 0
          THEN Raise("ValueError", "math domain error")
          ELSE IF vsqrtT = 0
          THEN Raise("ZeroDivisionError", "float division by zero")
          ELSE Call1(LAMBDA d1 : [kind |-> "ok", d1 |-> d1, d2 |-> d1 - vsqrtT],
                     DivQ(Ln(ratio)
                          + MulQ(r - q + MulQ(MulQ(Q \div 2, sigma), sigma), T),
                          vsqrtT)),
        MulQ(sigma, Sqrt(T)), DivQ(S, K))

\* The exception of the gate, line 13.
GateError == Raise("ValueError", "S, K, T, sigma must be > 0.")

\* _d1_d2 with the gate not looking at sigma.
_d1_d2_NoSigmaCheck(S, K, T, r, sigma, q) ==
  IF S <= 0 \/ K <= 0 \/ T <= 0
  THEN GateError
  ELSE D1D2Of(S, K, T, r, sigma, q)

\* _d1_d2: the validation gate of line 12, then d1 and d2.
_d1_d2(S, K, T, r, sigma, q) ==
  IF S <= 0 \/ K <= 0 \/ T <= 0 \/ sigma <= 0
  THEN GateError
  ELSE D1D2Of(S, K, T, r, sigma, q)

\* bs_price, lines 21-28: the price, given d1 and d2 and the two discount
\* factors.
PriceOf(S, K, d, disc_r, disc_q, option) ==
  IF option = "call"
  THEN [kind |-> "ok",
        value |-> MulQ(MulQ(S, disc_q), _Phi(d.d1)) - MulQ(MulQ(K, disc_r), _Phi(d.d2))]
  ELSE IF option = "put"
  THEN [kind |-> "ok",
        value |-> MulQ(MulQ(K, disc_r), _Phi(-d.d2)) - MulQ(MulQ(S, disc_q), _Phi(-d.d1))]
  ELSE Raise("ValueError", "option must be 'call' or 'put'")

\* bs_price: the price of a European call or put.
bs_price(S, K, T, r, sigma, q, option) ==
  Call1(LAMBDA d :
          IF d.kind # "ok"
          THEN d
          ELSE Call2(LAMBDA disc_r, disc_q : PriceOf(S, K, d, disc_r, disc_q, option),
                     Exp(MulQ(-r, T)), Exp(MulQ(-q, T))),
        _d1_d2(S, K, T, r, sigma, q))

\* bs_greeks, lines 43-57: the Greeks record, given d1 and d2, the discount
\* factors, pdf = _phi(d1) and math.sqrt(T).  Every option that is not "call"
\* takes the put branch.
GreeksOf(S, K, T, r, sigma, q, option, d, disc_r, disc_q, pdf, sqrtT) ==
  Call2(LAMBDA decay, denom :
          IF denom = 0
          THEN Raise("ZeroDivisionError", "float division by zero")
          ELSE [kind  |-> "ok",
                delta |-> IF option = "call"
                          THEN MulQ(disc_q, _Phi(d.d1))
                          ELSE MulQ(disc_q, _Phi(d.d1) - Q),
                gamma |-> DivQ(MulQ(disc_q, pdf), denom),
                vega  |-> MulQ(MulQ(MulQ(S, disc_q), pdf), sqrtT),
                theta |-> IF option = "call"
                          THEN decay
                               - MulQ(MulQ(MulQ(r, K), disc_r), _Phi(d.d2))
                               + MulQ(MulQ(MulQ(q, S), disc_q), _Phi(d.d1))
                          ELSE decay
                               + MulQ(MulQ(MulQ(r, K), disc_r), _Phi(-d.d2))
                               - MulQ(MulQ(MulQ(q, S), disc_q), _Phi(-d.d1)),
                rho   |-> IF option = "call"
                          THEN MulQ(MulQ(MulQ(K, T), disc_r), _Phi(d.d2))
                          ELSE -MulQ(MulQ(MulQ(K, T), disc_r), _Phi(-d.d2))],
        DivQ(MulQ(MulQ(MulQ(-S, disc_q), pdf), sigma), 2 * sqrtT),
        MulQ(MulQ(S, sigma), sqrtT))

\* bs_greeks: the five sensitivities.
bs_greeks(S, K, T, r, sigma, q, option) ==
  Call1(LAMBDA d :
          IF d.kind # "ok"
          THEN d
          ELSE Call4(LAMBDA disc_r, disc_q, pdf, sqrtT :
                       GreeksOf(S, K, T, r, sigma, q, option, d, disc_r, disc_q,
                                pdf, sqrtT),
                     Exp(MulQ(-r, T)), Exp(MulQ(-q, T)), _phi(d.d1), Sqrt(T)),
        _d1_d2(S, K, T, r, sigma, q))

\* ------------------------------------------------------------------------
\* Solver constants (implied_vol)
\* ------------------------------------------------------------------------

\* 1e-6: the lower clamp of sigma and the lower end of the bracket.
SigMin == 1

\* 5.0: the upper clamp of sigma and the upper end of the bracket.
SigMax == 5 * Q

\* A floor of 1.0 in place of 1e-12.
FloorAtOne == Q

\* 1e-12, the floor of the value the Newton phase returns: the smallest
\* positive number.
Floor == 1

\* 1e-12, the vega below which the Newton phase is left: the smallest
\* positive number.
VegaEps == 1

\* A bisection loop of one step more.
BisectItersOff == 200 + 1

\* The steps of the bisection loop.
BisectIters == 200

\* The defaults of seed, tol and max_iter.  The default tolerance 1e-8 is
\* below one unit; it is the smallest positive tolerance.
DefaultSeed == Q \div 5
DefaultTol == 1
DefaultMaxIter == 100

\* ------------------------------------------------------------------------
\* Inputs of the calls
\* ------------------------------------------------------------------------

\* The largest of the small Newton budgets tried (beside the default).
MaxIterSmall == 1

Options == {"call", "put", "straddle"}

\* price and greeks: S, K, T, sigma each valid or not.
Spots == {-Q, 0, Q}
Strikes == {0, Q \div 2, Q}
Expiries == {0, Q \div 4, Q}
Rates == {Q \div 20}
Yields == {0, Q \div 50}
Sigmas == {-(Q \div 5), 0, Q \div 5, 6 * Q}

\* implied_vol: the market of the call.
SolverSpots == {0, Q}
SolverStrikes == {Q \div 2, Q}
SolverExpiries == {Q \div 4}
SolverYields == {Q \div 20}
Targets == {0, Q \div 10, 2 * Q}
Seeds == {-(Q \div 2), 0, DefaultSeed, 6 * Q}
Tols == {DefaultTol, Q \div 100, 10 * Q}
MaxIters == (0 .. MaxIterSmall) \cup {DefaultMaxIter}

\* The volatilities a round trip prices at: 0.01, 3.0 and 6.0.
RoundTripSigmas == {Q \div 100, 3 * Q, 6 * Q}

\* ------------------------------------------------------------------------
\* State
\* ------------------------------------------------------------------------

VARIABLES
  pc,        \* "idle", "newton" (line 62), "bisect" (line 73) or "done"
  op,        \* the function called: "price", "greeks" or "implied_vol"
  args,      \* the arguments of the call
  sigma,     \* implied_vol: the Newton guess
  iter,      \* implied_vol: the Newton steps begun
  lo,        \* implied_vol: the bracket
  hi,
  biter,     \* implied_vol: the bisection steps begun
  result,    \* what the call ended in: a value, a Greeks record or an exception
  evals,     \* history: the calls of bs_price made by each phase of implied_vol
  evalAt,    \* history: the sigma of the last of them, and its price
  phases,    \* history: the phases entered, in order
  newtonEnd, \* history: how the Newton phase ended
  priced     \* history: the sigma the target was priced at (round trip), or 0

vars == <<pc, op, args, sigma, iter, lo, hi, biter, result, evals, evalAt,
          phases, newtonEnd, priced>>

NoArgs == [S |-> 0, K |-> 0, T |-> 0, r |-> 0, q |-> 0, option |-> "",
           sigma |-> 0, target |-> 0, seed |-> 0, tol |-> 0, max_iter |-> 0]

Init ==
  /\ pc = "idle"
  /\ op = "none"
  /\ args = NoArgs
  /\ sigma = 0
  /\ iter = 0
  /\ lo = 0
  /\ hi = 0
  /\ biter = 0
  /\ result = [kind |-> "none"]
  /\ evals = [newton |-> 0, bisect |-> 0]
  /\ evalAt = [sigma |-> 0, price |-> 0]
  /\ phases = <<>>
  /\ newtonEnd = "none"
  /\ priced = 0

solver == <<sigma, iter, lo, hi, biter, evals, evalAt, phases, newtonEnd, priced>>

\* A caller calls bs_price.
CallPrice ==
  /\ pc = "idle"
  /\ \E S \in Spots, K \in Strikes, T \in Expiries, r \in Rates, q \in Yields,
        sig \in Sigmas, option \in Options :
       /\ args' = [NoArgs EXCEPT !.S = S, !.K = K, !.T = T, !.r = r, !.q = q,
                                 !.sigma = sig, !.option = option]
       /\ result' = bs_price(S, K, T, r, sig, q, option)
  /\ op' = "price"
  /\ pc' = "done"
  /\ UNCHANGED solver

\* A caller calls bs_greeks.
CallGreeks ==
  /\ pc = "idle"
  /\ \E S \in Spots, K \in Strikes, T \in Expiries, r \in Rates, q \in Yields,
        sig \in Sigmas, option \in Options :
       /\ args' = [NoArgs EXCEPT !.S = S, !.K = K, !.T = T, !.r = r, !.q = q,
                                 !.sigma = sig, !.option = option]
       /\ result' = bs_greeks(S, K, T, r, sig, q, option)
  /\ op' = "greeks"
  /\ pc' = "done"
  /\ UNCHANGED solver

\* Line 61 without the clamp: sigma = float(seed).
EnterNoClamp(a, from) ==
  /\ args' = a
  /\ op' = "implied_vol"
  /\ pc' = "newton"
  /\ sigma' = a.seed
  /\ phases' = <<"newton">>
  /\ priced' = from
  /\ UNCHANGED <<iter, lo, hi, biter, result, evals, evalAt, newtonEnd>>

\* implied_vol, line 61: sigma = max(1e-6, float(seed)).
Enter(a, from) ==
  /\ args' = a
  /\ op' = "implied_vol"
  /\ pc' = "newton"
  /\ sigma' = Max(SigMin, a.seed)
  /\ phases' = <<"newton">>
  /\ priced' = from
  /\ UNCHANGED <<iter, lo, hi, biter, result, evals, evalAt, newtonEnd>>

\* A caller calls implied_vol with a target price of its own.
CallImpliedVol ==
  /\ pc = "idle"
  /\ \E S \in SolverSpots, K \in SolverStrikes, T \in SolverExpiries,
        r \in Rates, q \in SolverYields, option \in Options, target \in Targets,
        seed \in Seeds, tol \in Tols, max_iter \in MaxIters :
       Enter([NoArgs EXCEPT !.S = S, !.K = K, !.T = T, !.r = r, !.q = q,
                            !.option = option, !.target = target,
                            !.seed = seed, !.tol = tol, !.max_iter = max_iter], 0)

\* A caller calls implied_vol with the price bs_price returned for sig, the
\* default tol and max_iter, and the default seed or (as main does, line
\* 127) the seed sig.
CallRoundTrip ==
  /\ pc = "idle"
  /\ \E S \in SolverSpots, K \in SolverStrikes, T \in SolverExpiries,
        r \in Rates, q \in SolverYields, option \in Options, sig \in RoundTripSigmas :
     \E seed \in {DefaultSeed, sig} :
       \E p \in {bs_price(S, K, T, r, sig, q, option)} :
           /\ p.kind = "ok"
           /\ Enter([NoArgs EXCEPT !.S = S, !.K = K, !.T = T, !.r = r, !.q = q,
                                   !.option = option, !.target = p.value,
                                   !.seed = seed, !.tol = DefaultTol,
                                   !.max_iter = DefaultMaxIter], sig)

\* Line 72: lo, hi = 1e-6, 5.0, reached when the Newton loop ends.
EnterBisect(how) ==
  /\ pc' = "bisect"
  /\ lo' = SigMin
  /\ hi' = SigMax
  /\ phases' = Append(phases, "bisect")
  /\ newtonEnd' = how

\* The call raises exc.
Raised(exc) ==
  /\ pc' = "done"
  /\ result' = exc

\* The call returns v.
Returned(v, how) ==
  /\ pc' = "done"
  /\ result' = [kind |-> "ok", value |-> v, how |-> how]

\* The test of lines 65 and 76 with <= for <.
ConvergedOrEqual(price, target, tol) == Abs(price - target) <= tol

\* Lines 65 and 76: abs(price - target_price) < tol.
Converged(price, target, tol) == Abs(price - target) < tol

\* Lines 78-81 with the two halves swapped.
NarrowSwapped(mid, pmid, target) ==
  IF pmid > target
  THEN lo' = mid /\ hi' = hi
  ELSE hi' = mid /\ lo' = lo

\* Lines 78-81: the half of the bracket that is kept.
Narrow(mid, pmid, target) ==
  IF pmid > target
  THEN hi' = mid /\ lo' = lo
  ELSE lo' = mid /\ hi' = hi

\* One pass of the Newton loop, lines 62-70.
NewtonStep ==
  /\ pc = "newton"
  /\ iter < args.max_iter
  /\ \E price \in {bs_price(args.S, args.K, args.T, args.r, sigma, args.q, args.option)} :
         /\ evals' = [evals EXCEPT !.newton = @ + 1]
         /\ IF price.kind # "ok"
            THEN /\ Raised(price)
                 /\ newtonEnd' = "raised"
                 /\ evalAt' = [sigma |-> sigma, price |-> 0]
                 /\ UNCHANGED <<sigma, iter, lo, hi, phases>>
            ELSE \E diff \in {price.value - args.target} :
                     /\ evalAt' = [sigma |-> sigma, price |-> price.value]
                     /\ IF Converged(price.value, args.target, args.tol)
                        THEN /\ Returned(Max(Floor, sigma), "newton")
                             /\ newtonEnd' = "returned"
                             /\ UNCHANGED <<sigma, iter, lo, hi, phases>>
                        ELSE \E g \in {bs_greeks(args.S, args.K, args.T, args.r,
                                                sigma, args.q, args.option)} :
                                 IF g.kind # "ok"
                                 THEN /\ Raised(g)
                                      /\ newtonEnd' = "raised"
                                      /\ UNCHANGED <<sigma, iter, lo, hi, phases>>
                                 ELSE IF g.vega < VegaEps
                                 THEN /\ EnterBisect("vega")
                                      /\ UNCHANGED <<sigma, iter, result>>
                                 ELSE /\ sigma' = Min(SigMax, Max(SigMin,
                                                   sigma - DivQ(diff, g.vega)))
                                      /\ iter' = iter + 1
                                      /\ UNCHANGED <<pc, lo, hi, result, phases,
                                                     newtonEnd>>
  /\ UNCHANGED <<op, args, biter, priced>>

\* Line 62 with a budget of one step less.
NewtonExhaustedEarly ==
  /\ pc = "newton"
  /\ iter + 1 >= args.max_iter
  /\ EnterBisect("budget")
  /\ UNCHANGED <<op, args, sigma, iter, biter, result, evals, evalAt, priced>>

\* Line 62: range(max_iter) is used up.
NewtonExhausted ==
  /\ pc = "newton"
  /\ iter >= args.max_iter
  /\ EnterBisect("budget")
  /\ UNCHANGED <<op, args, sigma, iter, biter, result, evals, evalAt, priced>>

\* One pass of the bisection loop, lines 73-81.
BisectStep ==
  /\ pc = "bisect"
  /\ biter < BisectIters
  /\ \E mid \in {(lo + hi) \div 2} :
       \E pmid \in {bs_price(args.S, args.K, args.T, args.r, mid, args.q, args.option)} :
         /\ evals' = [evals EXCEPT !.bisect = @ + 1]
         /\ IF pmid.kind # "ok"
            THEN /\ Raised(pmid)
                 /\ evalAt' = [sigma |-> mid, price |-> 0]
                 /\ UNCHANGED <<lo, hi, biter>>
            ELSE /\ evalAt' = [sigma |-> mid, price |-> pmid.value]
                 /\ IF Converged(pmid.value, args.target, args.tol)
                    THEN /\ Returned(mid, "bisect")
                         /\ UNCHANGED <<lo, hi, biter>>
                    ELSE /\ biter' = biter + 1
                         /\ Narrow(mid, pmid.value, args.target)
                         /\ UNCHANGED <<pc, result>>
  /\ UNCHANGED <<op, args, sigma, iter, phases, newtonEnd, priced>>

\* Line 82 raising in place of returning.
BisectExhaustedRaises ==
  /\ pc = "bisect"
  /\ biter >= BisectIters
  /\ Raised(Raise("RuntimeError", "no convergence"))
  /\ UNCHANGED <<op, args, sigma, iter, lo, hi, biter, evals, evalAt, phases,
                 newtonEnd, priced>>

\* Line 82: range(200) is used up; return 0.5 * (lo + hi).
BisectExhausted ==
  /\ pc = "bisect"
  /\ biter >= BisectIters
  /\ Returned((lo + hi) \div 2, "exhausted")
  /\ UNCHANGED <<op, args, sigma, iter, lo, hi, biter, evals, evalAt, phases,
                 newtonEnd, priced>>

Next ==
  \/ CallPrice
  \/ CallGreeks
  \/ CallImpliedVol
  \/ CallRoundTrip
  \/ NewtonStep
  \/ NewtonExhausted
  \/ BisectStep
  \/ BisectExhausted

Spec == Init /\ [][Next]_vars

\* ------------------------------------------------------------------------
\* Properties
\* ------------------------------------------------------------------------

Solving == op = "implied_vol"

Returning == pc = "done" /\ Solving /\ result.kind = "ok"

ValidMarket == args.S > 0 /\ args.K > 0 /\ args.T > 0

\* bs_price at the call's market and the volatility s.
PriceAt(s) == bs_price(args.S, args.K, args.T, args.r, s, args.q, args.option)

\* C1: a call of bs_price or bs_greeks with one of S, K, T, sigma <= 0 ends
\* in the ValueError of the gate of _d1_d2, never in a price or a Greeks
\* record.
C1_InvalidInputRaises ==
  (/\ pc = "done"
   /\ op \in {"price", "greeks"}
   /\ (args.S <= 0 \/ args.K <= 0 \/ args.T <= 0 \/ args.sigma <= 0))
  => result = GateError

\* bs_price was called with T = 0, everything else valid, and raised.
C1_Witness ==
  /\ pc = "done"
  /\ op = "price"
  /\ args.S > 0 /\ args.K > 0 /\ args.T = 0 /\ args.sigma > 0
  /\ args.option = "call"
  /\ result = GateError

\* C2: every value implied_vol returns lies in (0, 5.0].
C2_ReturnInRange ==
  Returning => (0 < result.value /\ result.value <= SigMax)

\* The steps a running call has left at most: never negative, and lowered by
\* every step of the call.
Rank ==
  IF pc = "newton" THEN Max(0, args.max_iter) - iter + BisectIters + 3
  ELSE IF pc = "bisect" THEN BisectIters - biter + 1
  ELSE 0

C3_Bounded ==
  /\ evals.newton <= Max(0, args.max_iter)
  /\ evals.bisect <= 200
  /\ (args.max_iter = 100 => evals.newton + evals.bisect <= 300)
  /\ Rank >= 0

RankFalls == pc \in {"newton", "bisect"} => (Rank' < Rank)

\* C3: implied_vol calls bs_price at most max_iter times in the Newton phase
\* and at most 200 times in the bisection phase (300 in all for max_iter =
\* 100), and it terminates: every step of a running call lowers Rank, which
\* is never negative.
C3_BoundedEvaluations ==
  /\ [](Solving => C3_Bounded)
  /\ [][RankFalls]_vars

\* A call that used its whole budget: 100 + 200 evaluations.
C3_Witness ==
  /\ pc = "done"
  /\ Solving
  /\ args.max_iter = 100
  /\ evals.newton = 100
  /\ evals.bisect = 200

\* C4: bs_greeks raises exactly when bs_price raises on the same arguments.
C4_GreeksFailsIffPriceFails ==
  (pc = "done" /\ op = "greeks")
  => ((result.kind # "ok")
      <=> (bs_price(args.S, args.K, args.T, args.r, args.sigma, args.q,
                    args.option).kind # "ok"))

\* C5: for S, K, T > 0 and a call or put, implied_vol raises nothing: it
\* returns from the Newton phase, or the bisection phase runs and returns,
\* after 200 steps without convergence the midpoint of the final bracket.
C5_NeverFailsToConverge ==
  (pc = "done" /\ Solving /\ ValidMarket /\ args.option \in {"call", "put"})
  => /\ result.kind = "ok"
     /\ result.how \in {"newton", "bisect", "exhausted"}
     /\ (result.how = "newton" <=> phases = <<"newton">>)
     /\ (result.how = "exhausted"
         => biter = 200 /\ result.value = (lo + hi) \div 2)

\* The Newton phase was left for a vega below 1e-12, and the bisection used
\* its 200 steps and returned.
C5_Witness ==
  /\ pc = "done"
  /\ Solving
  /\ ValidMarket
  /\ newtonEnd = "vega"
  /\ result.kind = "ok"
  /\ result.how = "exhausted"

\* The round trips C6 is about: the target is the price at a sigma in
\* [0.01, 3.0] and seed, tol and max_iter are the defaults.
RoundTrip ==
  /\ pc = "done"
  /\ Solving
  /\ priced >= Q \div 100
  /\ priced <= 3 * Q
  /\ args.seed = DefaultSeed
  /\ args.tol = DefaultTol
  /\ args.max_iter = DefaultMaxIter

C7_PhaseOrder ==
  Solving
  => /\ phases \in {<<"newton">>, <<"newton", "bisect">>}
     /\ (pc = "newton" => phases = <<"newton">> /\ newtonEnd = "none")
     /\ (pc = "bisect" => phases = <<"newton", "bisect">>)
     /\ (phases = <<"newton", "bisect">> <=> newtonEnd \in {"vega", "budget"})
     /\ (newtonEnd \in {"returned", "raised"} => pc = "done")
     /\ (newtonEnd = "returned" => result.kind = "ok" /\ result.how = "newton")
     /\ (newtonEnd = "vega"
         => /\ iter < args.max_iter
            /\ evalAt.sigma = sigma \/ evals.bisect > 0
            /\ ~Converged(PriceAt(sigma).value, args.target, args.tol)
            /\ bs_greeks(args.S, args.K, args.T, args.r, sigma, args.q,
                         args.option).vega < VegaEps)
     /\ (newtonEnd = "budget"
         => iter >= args.max_iter /\ evals.newton = Max(0, args.max_iter))

\* The bisection is running after a Newton phase that took a step and was
\* then left for a vega below 1e-12.
C7_Witness ==
  /\ pc = "bisect"
  /\ newtonEnd = "vega"
  /\ iter > 0
  /\ biter > 0

\* C8: a value returned by the Newton phase, or by the bisection before its
\* 200 steps are used up, is the volatility bs_price was last called with,
\* and the price there is within tol of the target.
C8_EarlyReturnWithinTol ==
  (Returning /\ result.how \in {"newton", "bisect"})
  => /\ result.value = evalAt.sigma
     /\ Abs(evalAt.price - args.target) < args.tol
     /\ PriceAt(result.value).value = evalAt.price

\* The bisection returned early, after some steps.
C8_Witness ==
  /\ Returning
  /\ result.how = "bisect"
  /\ biter > 0
  /\ args.tol = DefaultTol

\* C9: the Newton guess is max(1e-6, seed) at first and in [1e-6, 5.0] after
\* every update, every volatility the solver prices at is >= 1e-6, and the
\* gate never raises for a sigma of the solver.
C9_NewtonSigmaClamped ==
  Solving
  => /\ sigma >= SigMin
     /\ (iter = 0 => sigma = Max(SigMin, args.seed))
     /\ (iter > 0 => sigma <= SigMax)
     /\ (evals.newton + evals.bisect > 0 => evalAt.sigma >= SigMin)
     /\ (ValidMarket /\ pc = "done" => result # GateError)

\* A negative seed, clamped to 1e-6, priced there, and a Newton step taken
\* from there.
C9_Witness ==
  /\ Solving
  /\ pc = "newton"
  /\ args.seed < 0
  /\ iter = 1
  /\ evalAt.sigma = SigMin
  /\ ValidMarket

\* The bracket of the bisection: inside [1e-6, 5.0], around the target when
\* the first bracket was, and around the returned value.
InBracket ==
  /\ SigMin <= lo
  /\ lo <= hi
  /\ hi <= SigMax
  /\ (ValidMarket /\ args.option \in {"call", "put"}
      /\ PriceAt(SigMin).value <= args.target
      /\ args.target <= PriceAt(SigMax).value
      => PriceAt(lo).value <= args.target /\ args.target <= PriceAt(hi).value)
  /\ (Returning => lo <= result.value /\ result.value <= hi)

Bracketed == Solving /\ "bisect" \in {phases[i] : i \in DOMAIN phases}

\* A step of the bisection that does not return puts the midpoint in place
\* of hi when the price there is above the target and of lo otherwise.
OneEndReplaced ==
  \/ (PriceAt((lo + hi) \div 2).value > args.target
      /\ hi' = (lo + hi) \div 2 /\ lo' = lo)
  \/ (PriceAt((lo + hi) \div 2).value <= args.target
      /\ lo' = (lo + hi) \div 2 /\ hi' = hi)

Halved ==
  /\ OneEndReplaced
  /\ 2 * (hi' - lo') >= (hi - lo) - 1
  /\ 2 * (hi' - lo') <= (hi - lo) + 1

HalvedExactly ==
  /\ OneEndReplaced
  /\ 2 * (hi' - lo') = hi - lo

BisectionHalves == (pc = "bisect" /\ pc' = "bisect") => Halved

BisectionHalvesExactly == (pc = "bisect" /\ pc' = "bisect") => HalvedExactly

\* C10 as stated: in the bisection phase 1e-6 <= lo <= hi <= 5.0, and a step
\* that does not return replaces one end by the midpoint and leaves hi - lo
\* at half of what it was.
C10_BracketHalvesExactly ==
  /\ [](Bracketed => InBracket)
  /\ [][BisectionHalvesExactly]_vars

\* C10, amended: in the bisection phase 1e-6 <= lo <= hi <= 5.0; a step that
\* does not return puts the midpoint in place of hi when the price there is
\* above the target and in place of lo otherwise, leaving the other end
\* alone, which halves hi - lo up to the rounding of the midpoint (one unit
\* of the arithmetic); and when price(1e-6) <= target <= price(5.0), then
\* price(lo) <= target <= price(hi) stays true and the returned value lies in
\* [lo, hi].
C10_BracketInvariant ==
  /\ [](Bracketed => InBracket)
  /\ [][BisectionHalves]_vars

\* The bracket holds the target's volatility after ten steps.
C10_Witness ==
  /\ pc = "bisect"
  /\ biter = 10
  /\ ValidMarket
  /\ PriceAt(lo).value < args.target
  /\ args.target < PriceAt(hi).value

====
